---- MODULE Spec2Model ----
(***************************************************************************)
(* Model of the Taskflow plugin's reclassification engine (src/main.ts):   *)
(* the processFile procedure of both plugin variants (extended: lines      *)
(* 219-295 with ensureFolder 202-213 and buildPath 37-41; basic: lines     *)
(* 580-654), the in-flight guard set `processing`, and the host's vault    *)
(* (folders, files, documents) and frontmatter as far as processFile       *)
(* reads and writes them; and, for the extended variant, the commands of   *)
(* lines 142-197 and 326-370 (moveToIcebox, moveOutOfBacklog, createTask),  *)
(* detectTaskCounter (121-137) and the root-folder setting (398-402).      *)
(*                                                                         *)
(* A path is the sequence of its '/'-separated segments; the empty string  *)
(* is the empty sequence.  JavaScript runs each handler without            *)
(* interruption up to its next `await`, so one action is one such run.     *)
(***************************************************************************)
EXTENDS Integers, Sequences, FiniteSets, TLC

\* Bounds of the model.
MaxInv == 2      \* processFile invocations (notifications delivered)
MaxEdits == 1    \* external edits of the classification property
MaxFaults == 1   \* injected I/O failures of host storage calls
MaxCmds == 2     \* user operations: command invocations and root-folder changes

Keys == {"done", "completed_date"}

VARIABLES
  variant,     \* "extended" (lines 1-511) or "basic" (lines 513-730)
  settings,    \* this.settings
  folders,     \* vault: the paths that are folders
  files,       \* vault: the paths that are files other than the documents
  path,        \* path[d]: file.path of document d (a live TFile)
  fm,          \* fm[d]: the frontmatter of document d
  processing,  \* the guard set (lines 219, 580)
  inv,         \* the processFile invocations so far, in order of arrival
  clock,       \* the instant `new Date()` returns next
  edits,       \* external edits made
  faults,      \* I/O failures injected
  taskSettings,  \* this.settings: taskCounter, iceboxFolder, enableBacklog, backlogFolder
  cmds,        \* the command invocations so far, in order of start
  timers,      \* paths whose guard entry a pending setTimeout will delete (line 362)
  scan,        \* a detectTaskCounter run is scheduled (lines 90, 401)
  rootEdits    \* changes of the root-folder setting made

taskVars == <<taskSettings, cmds, timers, scan, rootEdits>>
vars == <<variant, settings, folders, files, path, fm, processing, inv, clock, edits, faults,
          taskSettings, cmds, timers, scan, rootEdits>>

\* The markdown documents of the vault (live TFile objects).
Docs == DOMAIN path

----------------------------------------------------------------------------
\* Frontmatter values: a JavaScript scalar, tagged by its type.
Absent   == [kind |-> "absent", v |-> 0]
Null     == [kind |-> "null", v |-> 0]
True     == [kind |-> "bool", v |-> 1]
False    == [kind |-> "bool", v |-> 0]
Num0     == [kind |-> "num", v |-> 0]
Num1     == [kind |-> "num", v |-> 1]
StrEmpty == [kind |-> "str", v |-> 0]   \* ""
StrTrue  == [kind |-> "str", v |-> 1]   \* "true"
Stamp(n) == [kind |-> "ts", v |-> n]    \* formatInTimeZone(now, ...) at instant n

\* JavaScript truthiness, as `!frontmatter[key]` tests it (lines 277, 636).
Truthy(x) ==
  CASE x.kind \in {"absent", "null"} -> FALSE
    [] x.kind \in {"bool", "num", "str"} -> x.v # 0
    [] OTHER -> TRUE

NoFrontmatter == [present |-> FALSE, kv |-> [k \in Keys |-> Absent]]

----------------------------------------------------------------------------
\* Paths.
Prefix(p, k) == SubSeq(p, 1, k)
Parent(p) == Prefix(p, Len(p) - 1)
Prefixes(p) == {Prefix(p, k) : k \in 1..Len(p)}
Name(p) == p[Len(p)]

\* path.startsWith(`${root}/`) (lines 127, 232)
StartsWithDir(p, root) == Len(p) > Len(root) /\ Prefix(p, Len(root)) = root

\* buildPath (lines 37-41)
buildPath(root, sub) ==
  IF root = <<>> THEN sub
  ELSE IF sub = <<>> THEN root
  ELSE root \o sub

DocPaths == {path[d] : d \in Docs}
\* vault.getAbstractFileByPath(p) is not null
Exists(p) == p \in folders \/ p \in files \/ p \in DocPaths
\* vault.getAbstractFileByPath(p) instanceof TFile
IsTFile(p) == p \in files \/ p \in DocPaths

Entries == folders \cup files \cup DocPaths

----------------------------------------------------------------------------
\* Settings as processFile resolves them.

\* absoluteTrueFolder / absoluteFalseFolder (lines 236-237); the basic
\* variant uses trueFolder / falseFolder as they are (lines 606, 608).
ResolvedTrue ==
  IF variant = "extended" THEN buildPath(settings.rootFolder, settings.trueFolder)
  ELSE settings.trueFolder
ResolvedFalse ==
  IF variant = "extended" THEN buildPath(settings.rootFolder, settings.falseFolder)
  ELSE settings.falseFolder

\* Mutant: documents in the backlog and the icebox are left to the commands.
OutOfScopeOrShelved(p) ==
  \/ /\ variant = "extended"
     /\ settings.rootFolder # <<>>
     /\ ~StartsWithDir(p, settings.rootFolder)
  \/ Parent(p) \in {buildPath(settings.rootFolder, taskSettings.backlogFolder),
                    buildPath(settings.rootFolder, taskSettings.iceboxFolder)}
\* Mutant: the scope check is missing.
OutOfScopeNever(p) == FALSE
\* The scope check (line 232); the basic variant has none.
OutOfScope(p) ==
  /\ variant = "extended"
  /\ settings.rootFolder # <<>>
  /\ ~StartsWithDir(p, settings.rootFolder)

\* Mutant: only the property name is checked.
IncompletePropertyOnly == settings.propertyName = ""
\* The completeness check (lines 239, 592).
Incomplete ==
  \/ settings.propertyName = ""
  \/ ResolvedTrue = <<>>
  \/ ResolvedFalse = <<>>

\* Mutant: the property is coerced to a boolean instead of compared strictly.
TruthyClassification(value) == IF Truthy(value) THEN "true" ELSE "false"
\* propertyValue === true / === false / anything else (lines 252-258, 605-611)
Classification(value) ==
  IF value = True THEN "true"
  ELSE IF value = False THEN "false"
  ELSE "none"

\* Mutant: the two containers are taken the wrong way round.
TargetOfSwapped(val) == IF val = "true" THEN ResolvedFalse ELSE ResolvedTrue
\* targetFolder (lines 253, 255; 606, 608)
TargetOf(val) == IF val = "true" THEN ResolvedTrue ELSE ResolvedFalse

\* enableCompletedDate && completedDatePropertyName (lines 274, 633)
StampEnabled == settings.enableCompletedDate /\ settings.completedDatePropertyName # ""

\* Mutant: the gate does not consult the guard set.
GateAlwaysOpen(p) == TRUE
\* The reentrancy gate (lines 222, 583): the invocation may proceed.
GateOpen(p) == p \notin processing

\* The frontmatter mutators handed to processFrontMatter.
\* Mutant: the stamp callback also settles the classification property.
StampAndCheck(kv, key, now) ==
  [k \in DOMAIN kv |-> IF k = key THEN (IF Truthy(kv[k]) THEN kv[k] ELSE Stamp(now))
                       ELSE IF kv[k] = False THEN True ELSE kv[k]]
\* Mutant: the stamp is written whatever the key holds.
StampAlways(kv, key, now) == [kv EXCEPT ![key] = Stamp(now)]
\* lines 276-282, 635-641
StampMutator(kv, key, now) ==
  IF ~Truthy(kv[key]) THEN [kv EXCEPT ![key] = Stamp(now)] ELSE kv
\* Mutant: the key is blanked, not deleted.
ClearToNull(kv, key) == [kv EXCEPT ![key] = Null]
\* lines 284-286, 643-645
ClearMutator(kv, key) == [kv EXCEPT ![key] = Absent]

----------------------------------------------------------------------------
\* ensureFolder (lines 202-213): the first segment index from `from` on at
\* which getAbstractFileByPath finds nothing, given the vault's entries; 0
\* when every remaining prefix exists.
FirstMissing(target, from, entries) ==
  LET miss == {k \in from..Len(target) : Prefix(target, k) \notin entries}
  IN IF miss = {} THEN 0 ELSE CHOOSE k \in miss : \A j \in miss : k <= j

\* Host vault.createFolder(p): fails when p exists or an ancestor is a file;
\* creates p and its missing ancestors, ancestors first.
CreateFolderOk(p) ==
  /\ ~Exists(p)
  /\ \A k \in 1..(Len(p) - 1) : ~IsTFile(Prefix(p, k))
NewFolders(p) ==
  LET all == [k \in 1..Len(p) |-> Prefix(p, k)]
      IsNew(q) == q \notin folders
  IN SelectSeq(all, IsNew)

\* Host vault.rename(file, newPath): fails when newPath is taken or its
\* parent is not a folder.
RenameOk(newPath) ==
  /\ ~Exists(newPath)
  /\ Parent(newPath) \in folders

Range(s) == {s[k] : k \in 1..Len(s)}
Call(op, arg) == [op |-> op, arg |-> arg]

----------------------------------------------------------------------------
\* One processFile invocation.  pc is where it is suspended:
\*   "createFolder"  at `await createFolder(...)` (lines 210, 622)
\*   "rename"        before vault.rename resolves (lines 270, 629)
\*   "patch"         at `await processFrontMatter(...)` (lines 276/284, 635/643)
\*   "done"          returned; exit names the return taken.
\* The record also keeps what the invocation did (calls: the host calls it
\* issued, in order; created: the folders it created, in order; renamed,
\* patched, error; old/new: the timestamp key around its patch) and what
\* held when it was invoked or acted (seen: the cached frontmatter; during:
\* the invocations for the same path then in flight; collides: a segment of
\* the target path was a file; ready: the target and its ancestors were
\* folders when the rename was issued; kvOld/kvNew: the whole frontmatter
\* around its patch; escaped: an error left processFile uncaught).
NewInvocation(d) ==
  [doc |-> d, originalPath |-> path[d], pc |-> "done", exit |-> "gate",
   val |-> "none", target |-> <<>>, newPath |-> <<>>, idx |-> 0,
   calls |-> <<>>, created |-> <<>>, renamed |-> FALSE, patched |-> FALSE,
   error |-> FALSE, old |-> Absent, new |-> Absent,
   seen |-> fm[d],
   during |-> {i \in 1..Len(inv) : inv[i].pc # "done" /\ inv[i].originalPath = path[d]},
   collides |-> FALSE, ready |-> FALSE,
   kvOld |-> fm[d].kv, kvNew |-> fm[d].kv, escaped |-> FALSE]

\* Lines 265-267 and 202-210 (extended), 618-626 (basic): the run from the
\* target's resolution to the first await.
EnsureStart(r) ==
  IF variant = "extended"
  THEN LET k == FirstMissing(r.target, 1, Entries)
       IN IF k = 0 THEN [r EXCEPT !.pc = "rename"]
          ELSE [r EXCEPT !.pc = "createFolder", !.idx = k,
                         !.calls = Append(@, Call("createFolder", Prefix(r.target, k)))]
  ELSE IF ~Exists(r.target)
       THEN [r EXCEPT !.pc = "createFolder", !.idx = Len(r.target),
                      !.calls = Append(@, Call("createFolder", r.target))]
       ELSE IF IsTFile(r.target)
            THEN [r EXCEPT !.exit = "collision"]
            ELSE [r EXCEPT !.pc = "rename"]

\* Mutant: the document's path, not its parent's, is compared.
AlreadyPlacedByPath(p, target) == p = target
\* Mutant: the idempotence check is missing.
AlreadyPlacedNever(p, target) == FALSE
\* The idempotence check (lines 260-263, 613-616).
AlreadyPlaced(p, target) == Parent(p) = target

\* processFile from its entry to its first await or return
\* (lines 220-267, 581-626).
processFile(d) ==
  LET r0 == NewInvocation(d)
      p == path[d]
  IN IF ~GateOpen(p) THEN r0
     ELSE IF OutOfScope(p) THEN [r0 EXCEPT !.exit = "scope"]
     ELSE IF Incomplete THEN [r0 EXCEPT !.exit = "config"]
     ELSE LET r1 == [r0 EXCEPT !.calls = Append(@, Call("getFileCache", p))]
          IN IF ~fm[d].present THEN [r1 EXCEPT !.exit = "nometa"]
             ELSE LET val == Classification(fm[d].kv[settings.propertyName])
                  IN IF val = "none" THEN [r1 EXCEPT !.exit = "nonbool"]
                     ELSE IF AlreadyPlaced(p, TargetOf(val))
                          THEN [r1 EXCEPT !.val = val, !.target = TargetOf(val),
                                          !.exit = "placed"]
                          ELSE EnsureStart([r1 EXCEPT
                                 !.val = val, !.target = TargetOf(val),
                                 !.newPath = Append(TargetOf(val), Name(p)),
                                 !.collides = \E q \in Prefixes(TargetOf(val)) : IsTFile(q),
                                 !.exit = "ok"])

\* Mutant: the guard entry is not deleted.
ReleaseNothing(p) == processing
\* The `finally` block (lines 292-294, 651-653).
Release(p) == processing \ {p}

\* Mutant: the path is never added to the guard set.
GuardAfterNoAdd(r) == processing
\* The guard set once invocation r has run to its first await or return:
\* untouched by the return at the gate, which is outside the try (lines
\* 222-224, 583-585); the path added (lines 226, 587) and, when the
\* invocation has returned, deleted again by the finally.
GuardAfter(r) ==
  IF r.exit = "gate" THEN processing
  ELSE IF r.pc = "done" THEN (processing \cup {r.originalPath}) \ {r.originalPath}
  ELSE processing \cup {r.originalPath}

----------------------------------------------------------------------------
\* Initial states: the settings loaded (lines 104-108, 565-567), a vault and
\* the documents in it.
DocName(d) == IF d = 1 THEN "t.md" ELSE "u.md"

Roots(v) == IF v = "extended" THEN {<<>>, <<"r">>} ELSE {<<>>}
StampSettings ==
  {<<FALSE, "completed_date">>, <<TRUE, "">>, <<TRUE, "completed_date">>}
\* The timestamp key given the name of the classification property.
SameKeyStamp == {<<TRUE, "done">>}
SettingsOver(v, stamps) ==
  {[rootFolder |-> root, propertyName |-> pn, trueFolder |-> tf, falseFolder |-> ff,
    enableCompletedDate |-> st[1], completedDatePropertyName |-> st[2]] :
      root \in Roots(v), pn \in {"", "done"}, tf \in {<<>>, <<"a", "b">>},
      ff \in {<<>>, <<"in">>}, st \in stamps}
SettingsSpace(v) == SettingsOver(v, StampSettings)

PropValues == {Absent, Null, True, False, Num0, Num1, StrTrue}
Frontmatter(pv, cd) ==
  [present |-> TRUE, kv |-> [k \in Keys |-> IF k = "done" THEN pv ELSE cd]]
FmInit1 ==
  {NoFrontmatter, Frontmatter(True, StrEmpty)}
    \cup {Frontmatter(pv, cd) : pv \in PropValues, cd \in {Absent, Stamp(0)}}
FmInit2 == {Frontmatter(True, Absent)}

Outside == <<"x">>

\* DEFAULT_SETTINGS (lines 27-32), paths split into segments.
DefaultCounter == 1
DefaultTaskSettings ==
  [taskCounter |-> DefaultCounter, iceboxFolder |-> <<"icebox">>,
   enableBacklog |-> FALSE, backlogFolder |-> <<"backlog">>]

InitOver(stamps) ==
  /\ variant \in {"extended", "basic"}
  /\ settings \in SettingsOver(variant, stamps)
  /\ \E home \in ({ResolvedFalse, ResolvedTrue} \ {<<>>}) \cup {Outside} :
       /\ path = <<Append(home, DocName(1)), Append(Outside, DocName(2))>>
       /\ \E k \in 0..Len(ResolvedTrue) :
            /\ folders = Prefixes(home) \cup Prefixes(Outside)
                           \cup {Prefix(ResolvedTrue, j) : j \in 1..k}
            /\ files \in {{}} \cup
                 {{Prefix(ResolvedTrue, j)} : j \in {j \in {k + 1} :
                     j <= Len(ResolvedTrue) /\ Prefix(ResolvedTrue, j) \notin folders}}
  /\ fm \in {<<f1, f2>> : f1 \in FmInit1, f2 \in FmInit2}
  /\ processing = {}
  /\ inv = <<>>
  /\ clock = 1
  /\ edits = 0
  /\ faults = 0
  /\ taskSettings = DefaultTaskSettings
  /\ cmds = <<>>
  /\ timers = {}
  /\ scan = FALSE
  /\ rootEdits = 0
Init == InitOver(StampSettings)

----------------------------------------------------------------------------
\* Actions.

\* The host delivers a 'changed' notification for document d and the
\* listener calls processFile (lines 81-84, 550-553), which runs to its
\* first await or to its return.
Notify(d) ==
  /\ Len(inv) < MaxInv
  /\ LET r == processFile(d)
     IN /\ inv' = Append(inv, r)
        /\ processing' = GuardAfter(r)
  /\ UNCHANGED <<variant, settings, folders, files, path, fm, clock, edits, faults>>
  /\ UNCHANGED taskVars

\* Whether a host call may be made to fail by an I/O fault.
FaultChoices == IF faults < MaxFaults THEN {FALSE, TRUE} ELSE {FALSE}

\* Mutant: the catch block rethrows what it logged.
CaughtRethrows(r) ==
  [r EXCEPT !.pc = "done", !.exit = "error", !.error = TRUE, !.escaped = TRUE]
\* Mutant: the failure is swallowed where it happens and the procedure goes
\* on to its next step.
CaughtGoesOn(r) ==
  [r EXCEPT !.error = TRUE,
            !.pc = IF r.pc = "createFolder" THEN "rename" ELSE "done"]
\* The catch block (lines 290-291, 649-650): the error is logged and the
\* invocation ends; nothing is thrown on to the listener (lines 81-84).
Caught(r) == [r EXCEPT !.pc = "done", !.exit = "error", !.error = TRUE]

\* The pending createFolder of invocation i resolves or rejects, and the
\* invocation runs on to its next await (lines 206-212, 267; 622, 629).
CreateFolder(i) ==
  LET r == inv[i]
      p == Prefix(r.target, r.idx)
  IN /\ r.pc = "createFolder"
     /\ \E fault \in FaultChoices :
          /\ fault => CreateFolderOk(p)
          /\ faults' = IF fault THEN faults + 1 ELSE faults
          /\ IF CreateFolderOk(p) /\ ~fault
             THEN LET new == NewFolders(p)
                      r1 == [r EXCEPT !.created = @ \o new]
                      k == IF variant = "extended"
                           THEN FirstMissing(r.target, r.idx + 1, Entries \cup Range(new))
                           ELSE 0
                  IN /\ folders' = folders \cup Range(new)
                     /\ inv' = [inv EXCEPT ![i] =
                          IF k = 0 THEN [r1 EXCEPT !.pc = "rename"]
                          ELSE [r1 EXCEPT !.idx = k,
                                  !.calls = Append(@, Call("createFolder", Prefix(r.target, k)))]]
                     /\ UNCHANGED processing
             ELSE /\ inv' = [inv EXCEPT ![i] = Caught(r)]
                  /\ processing' = Release(r.originalPath)
                  /\ UNCHANGED folders
     /\ UNCHANGED <<variant, settings, files, path, fm, clock, edits>>
     /\ UNCHANGED taskVars

\* vault.rename of invocation i is issued and resolves or rejects; on
\* success the invocation runs on to the timestamp side-effect or returns
\* (lines 270-288, 629-647).
Rename(i) ==
  LET r == inv[i]
      d == r.doc
      r1 == [r EXCEPT !.calls = Append(@, Call("rename", r.newPath)),
                      !.ready = Prefixes(r.target) \subseteq folders]
  IN /\ r.pc = "rename"
     /\ \E fault \in FaultChoices :
          /\ fault => RenameOk(r.newPath)
          /\ faults' = IF fault THEN faults + 1 ELSE faults
          /\ IF RenameOk(r.newPath) /\ ~fault
             THEN /\ path' = [path EXCEPT ![d] = r.newPath]
                  /\ IF StampEnabled
                     THEN /\ inv' = [inv EXCEPT ![i] = [r1 EXCEPT
                               !.pc = "patch", !.renamed = TRUE,
                               !.calls = Append(@, Call("processFrontMatter", r.newPath))]]
                          /\ UNCHANGED processing
                     ELSE /\ inv' = [inv EXCEPT ![i] = [r1 EXCEPT
                               !.pc = "done", !.renamed = TRUE]]
                          /\ processing' = Release(r.originalPath)
             ELSE /\ inv' = [inv EXCEPT ![i] = Caught(r1)]
                  /\ processing' = Release(r.originalPath)
                  /\ UNCHANGED path
     /\ UNCHANGED <<variant, settings, folders, files, fm, clock, edits>>
     /\ UNCHANGED taskVars

\* processFrontMatter of invocation i applies its mutator to the document's
\* live frontmatter and resolves, or rejects (lines 276-286, 635-645).
Patch(i) ==
  LET r == inv[i]
      d == r.doc
      key == settings.completedDatePropertyName
      kv == fm[d].kv
      kv1 == IF r.val = "true" THEN StampMutator(kv, key, clock) ELSE ClearMutator(kv, key)
  IN /\ r.pc = "patch"
     /\ \E fault \in FaultChoices :
          /\ faults' = IF fault THEN faults + 1 ELSE faults
          /\ IF ~fault
             THEN /\ fm' = [fm EXCEPT ![d] =
                       [present |-> fm[d].present \/ kv1 # kv, kv |-> kv1]]
                  /\ clock' = IF kv1[key] = Stamp(clock) THEN clock + 1 ELSE clock
                  /\ inv' = [inv EXCEPT ![i] = [r EXCEPT
                       !.pc = "done", !.patched = TRUE,
                       !.old = kv[key], !.new = kv1[key],
                       !.kvOld = kv, !.kvNew = kv1]]
             ELSE /\ inv' = [inv EXCEPT ![i] = Caught(r)]
                  /\ UNCHANGED <<fm, clock>>
          /\ processing' = Release(r.originalPath)
     /\ UNCHANGED <<variant, settings, folders, files, path, edits>>
     /\ UNCHANGED taskVars

\* The user flips the boolean classification property of document d, one of
\* the documents being edited.
Edited == {1}
Flip(d) ==
  /\ edits < MaxEdits
  /\ d \in Edited
  /\ fm[d].present
  /\ fm[d].kv["done"].kind = "bool"
  /\ fm' = [fm EXCEPT ![d].kv["done"] = IF @ = True THEN False ELSE True]
  /\ edits' = edits + 1
  /\ UNCHANGED <<variant, settings, folders, files, path, processing, inv, clock, faults>>
  /\ UNCHANGED taskVars

Next ==
  \/ \E d \in Docs : Notify(d)
  \/ \E i \in 1..Len(inv) : CreateFolder(i)
  \/ \E i \in 1..Len(inv) : Rename(i)
  \/ \E i \in 1..Len(inv) : Patch(i)
  \/ \E d \in Docs : Flip(d)

Spec == Init /\ [][Next]_vars

\* The same engine, with the configurations in which completedDatePropertyName
\* is the classification property itself included.
InitAnyKey == InitOver(StampSettings \cup SameKeyStamp)
SpecAnyKey == InitAnyKey /\ [][Next]_vars

----------------------------------------------------------------------------
\* Task documents and the counter (extended variant).

\* The titles entered in the modal, after title.trim() (line 327).
Titles == {"", "a", "b"}

\* String(n).padStart(3, '0') (line 331)
padStart3(n) ==
  IF n < 10 THEN "00" \o ToString(n)
  ELSE IF n < 100 THEN "0" \o ToString(n)
  ELSE ToString(n)
\* `[TASK-${paddedNum}] ${title}.md` (line 332)
FileName(n, title) == "[TASK-" \o padStart3(n) \o "] " \o title \o ".md"

\* The number of the task document that exists at the start, and the numbers
\* a task document of the model can bear.
InitialTask == 2
TaskNumbers == 0..(InitialTask + MaxCmds + 1)

\* file.name.startsWith('[TASK-') (lines 146, 177) and the match of
\* /^\[TASK-(\d+)\]/ with parseInt (lines 128-130), on the names of the model.
IsTaskName(name) ==
  \E n \in TaskNumbers : \E t \in Titles \ {""} : name = FileName(n, t)
TaskNumber(name) ==
  CHOOSE n \in TaskNumbers : \E t \in Titles \ {""} : name = FileName(n, t)

MaxOf(S) == IF S = {} THEN 0 ELSE CHOOSE m \in S : \A x \in S : x <= m
\* detectTaskCounter's loop (lines 124-135): one above the highest number among
\* the task documents in scope.
DetectedCounter ==
  LET root == settings.rootFolder
      scanned == {d \in Docs : /\ root = <<>> \/ StartsWithDir(path[d], root)
                              /\ IsTaskName(Name(path[d]))}
  IN MaxOf({TaskNumber(Name(path[d])) : d \in scanned}) + 1

\* taskCounter + 1 (line 365)
NextCounter(n) == n + 1

\* Host vault.rename / vault.create at a path whose parent may be the vault
\* root: fails when the path is taken or its parent is not a folder.
RootOrFolder(p) == p = <<>> \/ p \in folders
MoveOk(newPath) == ~Exists(newPath) /\ RootOrFolder(Parent(newPath))

\* One command invocation.  pc is where it is suspended ("createFolder": in
\* ensureFolder, line 210; "rename": lines 166, 195; "create": line 361;
\* "done": returned or rejected).  doc is the active file (0: none), counter
\* the taskCounter read at line 330; notices counts the Notices shown; failed:
\* a storage call was rejected; escaped: the rejection left the command
\* uncaught; moved / made: the rename / the creation succeeded.
NewCommand(kind, d) ==
  [kind |-> kind, doc |-> d, pc |-> "done", target |-> <<>>, newPath |-> <<>>,
   idx |-> 0, counter |-> 0, notices |-> 0, failed |-> FALSE, escaped |-> FALSE,
   moved |-> FALSE, made |-> FALSE]

Noticed(c) == [c EXCEPT !.notices = @ + 1]

\* What follows `await ensureFolder(...)` in command c.
AfterEnsure(c) == IF c.kind = "createTask" THEN "create" ELSE "rename"

\* ensureFolder (lines 202-212) up to its first createFolder, or through.
CmdEnsure(c) ==
  LET k == FirstMissing(c.target, 1, Entries)
  IN IF k = 0 THEN [c EXCEPT !.pc = AfterEnsure(c)]
     ELSE [c EXCEPT !.pc = "createFolder", !.idx = k]

\* The guard set once command c has run to its next await: createTask adds
\* filePath before calling vault.create (line 360).
GuardWith(c) == IF c.pc = "create" THEN processing \cup {c.newPath} ELSE processing

\* moveToIcebox (lines 142-165) with active file d, up to its first await.
moveToIcebox(d) ==
  LET c == NewCommand("moveToIcebox", d)
      absoluteIcebox == buildPath(settings.rootFolder, taskSettings.iceboxFolder)
  IN IF d = 0 THEN c
     ELSE IF ~IsTaskName(Name(path[d])) THEN Noticed(c)
     ELSE IF absoluteIcebox = <<>> THEN Noticed(c)
     ELSE IF Parent(path[d]) = absoluteIcebox THEN Noticed(c)
     ELSE CmdEnsure([c EXCEPT !.target = absoluteIcebox,
                              !.newPath = Append(absoluteIcebox, Name(path[d]))])

\* moveOutOfBacklog (lines 173-194) with active file d, up to its first await.
moveOutOfBacklog(d) ==
  LET c == NewCommand("moveOutOfBacklog", d)
      targetFolder == settings.rootFolder
  IN IF d = 0 THEN c
     ELSE IF ~IsTaskName(Name(path[d])) THEN Noticed(c)
     ELSE IF Parent(path[d]) = targetFolder THEN Noticed(c)
     ELSE CmdEnsure([c EXCEPT !.target = targetFolder,
                              !.newPath = Append(targetFolder, Name(path[d]))])

\* createTask (lines 326-360) with the trimmed title, up to its first await
\* (templatePath is empty: the default content is used).
createTask(title) ==
  LET c == NewCommand("createTask", 0)
      taskCounter == taskSettings.taskCounter
      fileName == FileName(taskCounter, title)
      targetFolder == IF taskSettings.enableBacklog
                      THEN buildPath(settings.rootFolder, taskSettings.backlogFolder)
                      ELSE settings.rootFolder
  IN IF title = "" THEN c
     ELSE CmdEnsure([c EXCEPT !.counter = taskCounter, !.target = targetFolder,
                              !.newPath = Append(targetFolder, fileName)])

\* The state from which the commands are run: the extended variant with a
\* complete configuration, one task document and one other document.
TaskHomes == {settings.rootFolder, buildPath(settings.rootFolder, taskSettings.backlogFolder), <<"s">>}
InitTasks ==
  /\ variant = "extended"
  /\ settings \in {c \in SettingsOver("extended", {<<FALSE, "completed_date">>}) :
                     c.propertyName = "done" /\ c.trueFolder # <<>> /\ c.falseFolder # <<>>}
  /\ \E backlog \in BOOLEAN, icebox \in {DefaultTaskSettings.iceboxFolder}, first \in BOOLEAN :
       /\ taskSettings = [DefaultTaskSettings EXCEPT
                            !.enableBacklog = backlog, !.iceboxFolder = icebox,
                            !.taskCounter = IF first THEN DefaultCounter
                                            ELSE NextCounter(InitialTask)]
       /\ scan = first
  /\ \E home \in TaskHomes :
       /\ path = <<Append(home, FileName(InitialTask, "a")), Append(Outside, DocName(2))>>
       /\ folders = Prefixes(home) \cup Prefixes(Outside)
  /\ files = {}
  /\ fm = <<Frontmatter(False, Absent), Frontmatter(True, Absent)>>
  /\ processing = {}
  /\ inv = <<>>
  /\ clock = 1
  /\ edits = 0
  /\ faults = 0
  /\ cmds = <<>>
  /\ timers = {}
  /\ rootEdits = 0

engineVars == <<variant, inv, clock, edits, files>>

\* The user runs a command: the handler runs to its first await.
Started(c) ==
  /\ Len(cmds) + rootEdits < MaxCmds
  /\ cmds' = Append(cmds, c)
  /\ processing' = GuardWith(c)
  /\ UNCHANGED <<settings, folders, path, fm, faults, taskSettings, timers, scan, rootEdits>>
  /\ UNCHANGED engineVars
MoveToIcebox(d) == Started(moveToIcebox(d))
MoveOutOfBacklog(d) == taskSettings.enableBacklog /\ Started(moveOutOfBacklog(d))
CreateTask(title) == Started(createTask(title))

\* No command has a try/catch (lines 142-197, 326-370): a rejected storage
\* call rejects the command's promise then and there, and no Notice is shown.
Rejected(c) == [c EXCEPT !.pc = "done", !.failed = TRUE, !.escaped = TRUE]

\* The pending createFolder of command i resolves or rejects, and
\* ensureFolder's loop runs on (lines 206-212).
CmdCreateFolder(i) ==
  LET c == cmds[i]
      p == Prefix(c.target, c.idx)
  IN /\ c.pc = "createFolder"
     /\ \E fault \in FaultChoices :
          /\ fault => CreateFolderOk(p)
          /\ faults' = IF fault THEN faults + 1 ELSE faults
          /\ IF CreateFolderOk(p) /\ ~fault
             THEN LET new == NewFolders(p)
                      k == FirstMissing(c.target, c.idx + 1, Entries \cup Range(new))
                      c1 == IF k = 0 THEN [c EXCEPT !.pc = AfterEnsure(c)]
                            ELSE [c EXCEPT !.idx = k]
                  IN /\ folders' = folders \cup Range(new)
                     /\ cmds' = [cmds EXCEPT ![i] = c1]
                     /\ processing' = GuardWith(c1)
             ELSE /\ cmds' = [cmds EXCEPT ![i] = Rejected(c)]
                  /\ UNCHANGED <<folders, processing>>
     /\ UNCHANGED <<settings, path, fm, taskSettings, timers, scan, rootEdits>>
     /\ UNCHANGED engineVars

\* vault.rename of a move command resolves, and the Notice is shown, or
\* rejects (lines 166-167, 195-196).
CmdRename(i) ==
  LET c == cmds[i]
  IN /\ c.pc = "rename"
     /\ \E fault \in FaultChoices :
          /\ fault => MoveOk(c.newPath)
          /\ faults' = IF fault THEN faults + 1 ELSE faults
          /\ IF MoveOk(c.newPath) /\ ~fault
             THEN /\ path' = [path EXCEPT ![c.doc] = c.newPath]
                  /\ cmds' = [cmds EXCEPT ![i] = Noticed([c EXCEPT !.pc = "done", !.moved = TRUE])]
             ELSE /\ cmds' = [cmds EXCEPT ![i] = Rejected(c)]
                  /\ UNCHANGED path
     /\ UNCHANGED <<settings, folders, fm, processing, taskSettings, timers, scan, rootEdits>>
     /\ UNCHANGED engineVars

\* vault.create of createTask resolves: the release timer is set and the
\* counter written (lines 361-365); or it rejects, and neither happens.
CmdCreate(i) ==
  LET c == cmds[i]
  IN /\ c.pc = "create"
     /\ \E fault \in FaultChoices :
          /\ fault => MoveOk(c.newPath)
          /\ faults' = IF fault THEN faults + 1 ELSE faults
          /\ IF MoveOk(c.newPath) /\ ~fault
             THEN /\ path' = Append(path, c.newPath)
                  /\ fm' = Append(fm, Frontmatter(False, Absent))
                  /\ timers' = timers \cup {c.newPath}
                  /\ taskSettings' = [taskSettings EXCEPT !.taskCounter = NextCounter(c.counter)]
                  /\ cmds' = [cmds EXCEPT ![i] = [c EXCEPT !.pc = "done", !.made = TRUE]]
             ELSE /\ cmds' = [cmds EXCEPT ![i] = Rejected(c)]
                  /\ UNCHANGED <<path, fm, timers, taskSettings>>
     /\ UNCHANGED <<settings, folders, processing, scan, rootEdits>>
     /\ UNCHANGED engineVars

\* The timer set at line 362 fires.
TimerFires(p) ==
  /\ p \in timers
  /\ processing' = processing \ {p}
  /\ timers' = timers \ {p}
  /\ UNCHANGED <<settings, folders, path, fm, faults, taskSettings, cmds, scan, rootEdits>>
  /\ UNCHANGED engineVars

\* detectTaskCounter (lines 121-137), scheduled at the first load (line 90) or
\* by a change of the root folder (line 401).
DetectTaskCounter ==
  /\ scan
  /\ taskSettings' = [taskSettings EXCEPT !.taskCounter = DetectedCounter]
  /\ scan' = FALSE
  /\ UNCHANGED <<settings, folders, path, fm, processing, faults, cmds, timers, rootEdits>>
  /\ UNCHANGED engineVars

\* The root-folder setting is changed (lines 398-401).
RootChoices == {<<>>, <<"r">>, <<"s">>}
ChangeRootFolder(value) ==
  /\ Len(cmds) + rootEdits < MaxCmds
  /\ value # settings.rootFolder
  /\ settings' = [settings EXCEPT !.rootFolder = value]
  /\ scan' = TRUE
  /\ rootEdits' = rootEdits + 1
  /\ UNCHANGED <<folders, path, fm, processing, faults, taskSettings, cmds, timers>>
  /\ UNCHANGED engineVars

NextTasks ==
  \/ \E d \in Docs \cup {0} : MoveToIcebox(d)
  \/ \E d \in Docs \cup {0} : MoveOutOfBacklog(d)
  \/ \E title \in Titles : CreateTask(title)
  \/ \E i \in 1..Len(cmds) : CmdCreateFolder(i)
  \/ \E i \in 1..Len(cmds) : CmdRename(i)
  \/ \E i \in 1..Len(cmds) : CmdCreate(i)
  \/ \E p \in timers : TimerFires(p)
  \/ DetectTaskCounter
  \/ \E value \in RootChoices : ChangeRootFolder(value)

SpecTasks == InitTasks /\ [][NextTasks]_vars

\* The commands and the engine together, under settings that stay as loaded:
\* a complete configuration without the timestamp side-effect and with the
\* backlog enabled, and one task document that a command has left in the
\* backlog or the icebox, its property as createTask writes it (line 347) or
\* emptied by the user.  Storage calls fail only where the vault refuses
\* them: no further failure is injected (the fault budget starts spent).
Shelves ==
  {buildPath(settings.rootFolder, taskSettings.backlogFolder),
   buildPath(settings.rootFolder, taskSettings.iceboxFolder)}
ShelvedValues == {False, Null}
InitShelved ==
  /\ variant = "extended"
  /\ settings \in {c \in SettingsOver("extended", {<<FALSE, "completed_date">>}) :
                     c.propertyName = "done" /\ c.trueFolder # <<>> /\ c.falseFolder # <<>>}
  /\ taskSettings = [DefaultTaskSettings EXCEPT
                       !.enableBacklog = TRUE,
                       !.taskCounter = NextCounter(InitialTask)]
  /\ scan = FALSE
  /\ \E home \in Shelves :
       /\ path = <<Append(home, FileName(InitialTask, "a"))>>
       /\ folders = Prefixes(home)
  /\ files = {}
  /\ fm \in {<<Frontmatter(pv, Absent)>> : pv \in ShelvedValues}
  /\ processing = {}
  /\ inv = <<>>
  /\ clock = 1
  /\ edits = 0
  /\ faults = MaxFaults
  /\ cmds = <<>>
  /\ timers = {}
  /\ rootEdits = 0

\* The commands are run on a document and with one title; notifications
\* arrive for every document, those createTask made included.
NextShelved ==
  \/ \E d \in Docs : MoveToIcebox(d)
  \/ \E d \in Docs : MoveOutOfBacklog(d)
  \/ CreateTask("b")
  \/ \E i \in 1..Len(cmds) : CmdCreateFolder(i)
  \/ \E i \in 1..Len(cmds) : CmdRename(i)
  \/ \E i \in 1..Len(cmds) : CmdCreate(i)
  \/ \E p \in timers : TimerFires(p)
  \/ \E d \in Docs : Notify(d)
  \/ \E i \in 1..Len(inv) : CreateFolder(i)
  \/ \E i \in 1..Len(inv) : Rename(i)

SpecShelved == InitShelved /\ [][NextShelved]_vars

----------------------------------------------------------------------------
\* Properties.

Invs == 1..Len(inv)
HasCall(r, op) == \E k \in 1..Len(r.calls) : r.calls[k].op = op
\* The invocation created no folder, issued no rename and no patch.
NoEffect(r) ==
  /\ ~HasCall(r, "createFolder") /\ r.created = <<>>
  /\ ~HasCall(r, "rename") /\ ~r.renamed
  /\ ~HasCall(r, "processFrontMatter") /\ ~r.patched
\* The cached value at propertyName the invocation was notified with.
SeenValue(r) ==
  IF r.seen.present /\ settings.propertyName \in Keys
  THEN r.seen.kv[settings.propertyName]
  ELSE Absent
DistinctContainers ==
  ResolvedTrue # <<>> /\ ResolvedFalse # <<>> /\ ResolvedTrue # ResolvedFalse
\* A timestamp key holding a value: not absent, not null, not "".
NonEmpty(x) == x.kind \notin {"absent", "null"} /\ x # StrEmpty

\* C1: an invocation for a path for which an earlier invocation is past the
\* gate and unfinished is a strict no-op: it has returned at the gate (while
\* the earlier one is still in flight) without a metadata read, folder
\* creation, rename or patch, the guard still holds the path for the earlier
\* invocation, and the two invocations rename the document at most once.
C1_GuardedIsNoOp ==
  \A j \in Invs : inv[j].during # {} =>
    /\ inv[j].pc = "done" /\ inv[j].exit = "gate"
    /\ inv[j].calls = <<>> /\ NoEffect(inv[j])
    /\ \A i \in inv[j].during :
         /\ inv[i].pc # "done" => inv[i].originalPath \in processing
         /\ ~(inv[i].renamed /\ inv[j].renamed)
C1_Witness ==
  \E j \in Invs : \E i \in inv[j].during :
    inv[j].exit = "gate" /\ inv[i].pc = "patch" /\ inv[i].renamed

\* C2: at most one invocation per document is past the gate and unfinished.
C2_OneInFlightPerDocument ==
  \A i, j \in Invs :
    (i < j /\ inv[i].doc = inv[j].doc) => (inv[i].pc = "done" \/ inv[j].pc = "done")

\* C3: an invocation whose cached property value is not boolean true or
\* false (no snapshot, absent, null, 0, 1, "true") creates no folder and
\* issues no rename and no patch; only true or false relocate.
C3_BooleanOnly ==
  \A i \in Invs :
    /\ SeenValue(inv[i]) \notin {True, False} => (inv[i].pc = "done" /\ NoEffect(inv[i]))
    /\ inv[i].renamed => SeenValue(inv[i]) \in {True, False}
C3_Witness ==
  \E i \in Invs :
    /\ SeenValue(inv[i]) = StrTrue /\ inv[i].exit = "nonbool"
    /\ DistinctContainers /\ Parent(inv[i].originalPath) = ResolvedFalse

\* C4: with distinct non-empty containers, an unguarded invocation that
\* finished without a failing or colliding storage call, for a document in
\* the false container with property true, renamed it to
\* <true container>/<its name>, and likewise for property false in the true
\* container; the only host calls an invocation makes are the cache read,
\* folder creation, the rename and the frontmatter patch.
FaultFree(r) == r.pc = "done" /\ r.exit # "gate" /\ ~r.error /\ ~r.collides
MovedTo(r, container) ==
  r.renamed /\ r.newPath = Append(container, Name(r.originalPath))
C4_RoundTrip ==
  \A i \in Invs :
    /\ (DistinctContainers /\ FaultFree(inv[i])) =>
         /\ (SeenValue(inv[i]) = True /\ Parent(inv[i].originalPath) = ResolvedFalse)
              => MovedTo(inv[i], ResolvedTrue)
         /\ (SeenValue(inv[i]) = False /\ Parent(inv[i].originalPath) = ResolvedTrue)
              => MovedTo(inv[i], ResolvedFalse)
    /\ \A k \in 1..Len(inv[i].calls) :
         inv[i].calls[k].op \in {"getFileCache", "createFolder", "rename", "processFrontMatter"}
C4_Witness ==
  \E i, j \in Invs :
    /\ i < j /\ inv[i].doc = inv[j].doc /\ DistinctContainers
    /\ FaultFree(inv[i]) /\ FaultFree(inv[j])
    /\ SeenValue(inv[i]) = True /\ MovedTo(inv[i], ResolvedTrue)
    /\ SeenValue(inv[j]) = False /\ MovedTo(inv[j], ResolvedFalse)
    /\ inv[j].originalPath = inv[i].newPath
    /\ path[inv[j].doc] = inv[i].originalPath

\* C5: an invocation for a document whose parent container is the resolved
\* target of its boolean property value creates no folder and issues no
\* rename and no patch.
SeenTarget(r) == IF SeenValue(r) = True THEN ResolvedTrue ELSE ResolvedFalse
C5_PlacedIsNoOp ==
  \A i \in Invs :
    (SeenValue(inv[i]) \in {True, False}
       /\ Parent(inv[i].originalPath) = SeenTarget(inv[i]))
      => (inv[i].pc = "done" /\ NoEffect(inv[i]))
C5_Witness ==
  \E i, j \in Invs :
    /\ i < j /\ inv[i].doc = inv[j].doc
    /\ inv[i].exit = "placed" /\ inv[j].exit = "placed"

C7_StampAfterMove ==
  \A i \in Invs :
    (StampEnabled /\ inv[i].renamed /\ inv[i].pc = "done" /\ ~inv[i].error) =>
      /\ inv[i].patched
      /\ inv[i].val = "true" => NonEmpty(inv[i].new)
      /\ inv[i].val = "false" => inv[i].new = Absent
C7_Witness ==
  /\ \E i \in Invs : inv[i].patched /\ inv[i].val = "false"
                     /\ inv[i].old = Stamp(0) /\ inv[i].new = Absent
  /\ \E i \in Invs : inv[i].patched /\ inv[i].val = "true"
                     /\ inv[i].old = Absent /\ inv[i].new = Stamp(1)

\* C8: when an invocation issues the rename, the target container and all
\* its ancestors are folders of the vault, and the folders the invocation
\* created are prefixes of the target created ancestors first.
AncestorFirst(r) ==
  /\ \A k \in 1..Len(r.created) : r.created[k] \in Prefixes(r.target)
  /\ \A k, l \in 1..Len(r.created) : k < l => Len(r.created[k]) < Len(r.created[l])
C8_TargetExistsAtRename ==
  \A i \in Invs :
    HasCall(inv[i], "rename") => (inv[i].ready /\ AncestorFirst(inv[i]))

\* C9: an invocation whose target path has a segment that exists as a file
\* issues no rename and creates no folder, and ends with an error.
C9_CollisionAborts ==
  \A i \in Invs : inv[i].collides =>
    /\ ~HasCall(inv[i], "rename") /\ ~inv[i].renamed
    /\ inv[i].created = <<>>
    /\ inv[i].pc = "done" => inv[i].exit \in {"collision", "error"}

\* C10: in the extended variant with a root folder set, an invocation for a
\* document whose path does not begin with rootFolder + '/' creates no
\* folder, issues no rename and no patch, has returned, and leaves no guard
\* entry for its path.
C10_OutOfScopeUntouched ==
  \A i \in Invs :
    (variant = "extended" /\ settings.rootFolder # <<>>
       /\ ~StartsWithDir(inv[i].originalPath, settings.rootFolder))
      => /\ inv[i].pc = "done" /\ NoEffect(inv[i])
         /\ inv[i].originalPath \notin processing
C10_Witness ==
  \E i \in Invs :
    /\ inv[i].exit = "scope" /\ SeenValue(inv[i]) = True
    /\ \E j \in Invs : inv[j].doc # inv[i].doc /\ inv[j].renamed

\* C11: the guard holds no path but those of invocations in flight (an
\* invocation that has returned has deleted its entry, whatever its exit),
\* and a notification is stopped at the gate only while an invocation for
\* its path is in flight.
InFlightPaths == {inv[i].originalPath : i \in {j \in Invs : inv[j].pc # "done"}}
C11_GuardReleased ==
  /\ processing \subseteq InFlightPaths
  /\ \A j \in Invs : inv[j].exit = "gate" => inv[j].during # {}
C11_Witness ==
  \E i, j \in Invs :
    /\ i < j /\ inv[i].originalPath = inv[j].originalPath
    /\ inv[i].exit = "error" /\ HasCall(inv[i], "rename")
    /\ inv[j].exit # "gate" /\ inv[j].pc = "rename"

\* C12: an invocation in which a host call failed has ended in its catch
\* block, and no error leaves processFile, so the listener's promise is
\* never rejected.
C12_NothingPropagates ==
  \A i \in Invs :
    /\ ~inv[i].escaped
    /\ inv[i].error => (inv[i].pc = "done" /\ inv[i].exit = "error")
C12_Witness ==
  \E i \in Invs :
    /\ inv[i].error /\ ~inv[i].escaped /\ inv[i].pc = "done"
    /\ inv[i].renamed /\ HasCall(inv[i], "processFrontMatter") /\ ~inv[i].patched

\* C16: with propertyName empty, or a resolved true or false container
\* empty, every invocation is a no-op: no host call at all (no metadata
\* read, folder creation, rename or patch), no error, and nothing left in
\* the guard.
UnsetConfiguration ==
  settings.propertyName = "" \/ <<>> \in {ResolvedTrue, ResolvedFalse}
C16_IncompleteIsNoOp ==
  UnsetConfiguration =>
    /\ processing = {}
    /\ \A i \in Invs :
         /\ inv[i].pc = "done" /\ inv[i].exit \in {"scope", "config"}
         /\ inv[i].calls = <<>> /\ NoEffect(inv[i])
         /\ ~inv[i].error /\ ~inv[i].escaped
C16_Witness ==
  \E i \in Invs :
    /\ inv[i].exit = "config" /\ inv[i].doc = 1
    /\ settings.propertyName = "done" /\ ResolvedTrue # <<>> /\ ResolvedFalse = <<>>
    /\ inv[i].seen.present /\ inv[i].seen.kv["done"] = True
    /\ Parent(inv[i].originalPath) # ResolvedTrue

\* C17: with no external edit after the initial one, whatever notifications
\* follow (the engine's own rename and patch included), each document is
\* renamed at most once and patched at most once, and every invocation for
\* it that starts after the rename issues no folder creation, rename or patch.
RenamesOf(d) == {i \in Invs : inv[i].doc = d /\ inv[i].renamed}
PatchesOf(d) == {i \in Invs : inv[i].doc = d /\ inv[i].patched}
C17_NoFeedbackLoop ==
  edits = 0 =>
    \A d \in Docs :
      /\ Cardinality(RenamesOf(d)) <= 1
      /\ Cardinality(PatchesOf(d)) <= 1
      /\ \A i, j \in Invs :
           (i < j /\ inv[i].doc = d /\ inv[j].doc = d /\ inv[i].renamed)
             => (inv[j].pc = "done" /\ NoEffect(inv[j]))
C17_Witness ==
  /\ edits = 0
  /\ \E i, j \in Invs :
       /\ i < j /\ inv[i].doc = inv[j].doc
       /\ inv[i].renamed /\ inv[i].patched
       /\ inv[j].originalPath = inv[i].newPath /\ inv[j].exit = "placed"

\* C18: a notification stopped at the gate leaves nothing behind that could
\* run later: its invocation has ended without computing or calling
\* anything, and every invocation that does make a host call arrived when no
\* invocation for its path was in flight.
C18_SuppressedIsDropped ==
  \A j \in Invs :
    /\ inv[j].exit = "gate" =>
         /\ inv[j].pc = "done" /\ inv[j].calls = <<>> /\ NoEffect(inv[j])
         /\ inv[j].val = "none" /\ inv[j].newPath = <<>>
    /\ inv[j].calls # <<>> => inv[j].during = {}
\* The in-flight invocation has finished, the suppressed notification carried
\* the value false, and the document stays in the true container.
C18_Witness ==
  \E j \in Invs : \E i \in inv[j].during :
    /\ j = Len(inv) /\ inv[j].exit = "gate"
    /\ \A k \in Invs : inv[k].pc = "done"
    /\ inv[i].val = "true" /\ inv[i].renamed
    /\ SeenValue(inv[j]) = False
    /\ path[inv[j].doc] = inv[i].newPath /\ inv[i].newPath # inv[j].originalPath
    /\ processing = {}

\* C19: the step in which a host call of an invocation fails changes neither
\* the document's path nor any metadata nor the folders, and ends the
\* invocation: after a failed folder creation or a failed rename the
\* document is at its original path and no rename resp. patch is issued;
\* after a failed patch the rename stands and the patch has written nothing.
LastOp(r) == r.calls[Len(r.calls)].op
C19_FailingStep ==
  \A i \in Invs :
    (~inv[i].error /\ inv'[i].error) =>
      /\ path' = path /\ fm' = fm /\ folders' = folders /\ files' = files
      /\ inv'[i].pc = "done"
      /\ inv'[i].renamed = inv[i].renamed /\ inv'[i].patched = inv[i].patched
      /\ inv[i].pc \in {"createFolder", "rename"} =>
           (path[inv[i].doc] = inv[i].originalPath /\ ~inv[i].renamed)
      /\ inv[i].pc = "patch" => (inv[i].renamed /\ ~inv[i].patched)
C19_NoLaterStep ==
  \A i \in Invs :
    inv[i].error =>
      /\ inv[i].pc = "done" /\ ~inv[i].patched
      /\ LastOp(inv[i]) = "createFolder" => ~inv[i].renamed
      /\ LastOp(inv[i]) = "rename" => ~inv[i].renamed
      /\ LastOp(inv[i]) = "processFrontMatter" => inv[i].renamed
      /\ LastOp(inv[i]) \in {"createFolder", "rename", "processFrontMatter"}
C19_FailureStops == [][C19_FailingStep]_vars /\ []C19_NoLaterStep
C19_Witness ==
  \E i \in Invs :
    /\ inv[i].error /\ inv[i].pc = "done"
    /\ inv[i].created # <<>> /\ LastOp(inv[i]) = "rename" /\ ~inv[i].renamed
    /\ path[inv[i].doc] = inv[i].originalPath
    /\ fm[inv[i].doc] = inv[i].seen

\* C20 (as stated): no invocation changes the classification property or any
\* key other than completedDatePropertyName, and with the side-effect
\* disabled or its key empty no invocation issues a patch.
C20_OnlyStampKey ==
  \A i \in Invs :
    /\ \A k \in Keys \ {settings.completedDatePropertyName} : inv[i].kvNew[k] = inv[i].kvOld[k]
    /\ settings.propertyName \in Keys =>
         inv[i].kvNew[settings.propertyName] = inv[i].kvOld[settings.propertyName]
    /\ ~StampEnabled =>
         (~HasCall(inv[i], "processFrontMatter") /\ ~inv[i].patched /\ inv[i].kvNew = inv[i].kvOld)

\* C20 (amended): no step of the engine changes a metadata key other than
\* completedDatePropertyName (so the classification property is changed only
\* when it is that very key), and with the side-effect disabled or its key
\* empty no invocation issues a patch, also when it relocates the document.
EngineStep == edits' = edits
C20_FrameStep ==
  EngineStep =>
    \A d \in Docs : \A k \in Keys :
      fm'[d].kv[k] # fm[d].kv[k] =>
        /\ StampEnabled /\ k = settings.completedDatePropertyName
        /\ \E i \in Invs : inv[i].doc = d /\ inv[i].pc = "patch" /\ inv'[i].patched
C20_FrameState ==
  \A i \in Invs :
    /\ \A k \in Keys \ {settings.completedDatePropertyName} : inv[i].kvNew[k] = inv[i].kvOld[k]
    /\ ~StampEnabled =>
         (~HasCall(inv[i], "processFrontMatter") /\ ~inv[i].patched /\ inv[i].kvNew = inv[i].kvOld)
C20_OnlyStampKeyEvenIfSame == [][C20_FrameStep]_vars /\ []C20_FrameState
C20_Witness ==
  \E i \in Invs :
    /\ inv[i].renamed /\ inv[i].patched
    /\ settings.completedDatePropertyName = settings.propertyName
    /\ inv[i].kvOld["done"] = False /\ inv[i].kvNew["done"] # False

Cmds == 1..Len(cmds)

\* C13: a command in which a storage call failed has shown exactly one
\* notice, and the failure has not left the command uncaught.
C13_FailureIsNoticed ==
  \A i \in Cmds : cmds[i].failed => (cmds[i].notices = 1 /\ ~cmds[i].escaped)

\* C14: every path in the guard set has something that will delete it: an
\* invocation of processFile in flight for it, a createTask still awaiting
\* vault.create for it, or a pending release timer.
CreatingPaths == {cmds[i].newPath : i \in {j \in Cmds : cmds[j].pc = "create"}}
C14_CreateGuardReleased ==
  processing \subseteq (InFlightPaths \cup CreatingPaths \cup timers)

\* C15: no step decreases taskCounter.
C15_CounterMonotonic ==
  [][taskSettings'.taskCounter >= taskSettings.taskCounter]_vars

\* C21: any two createTask invocations that both created a document used
\* different TASK numbers.
Made == {i \in Cmds : cmds[i].kind = "createTask" /\ cmds[i].made}
C21_UniqueNumbers ==
  \A i, j \in Made : i # j => cmds[i].counter # cmds[j].counter

\* C22: two invocations for different documents that have both ended, with
\* no file on a target path and no I/O failure injected, have each relocated
\* their document if they got as far as resolving a target that is not the
\* document's container, as they would when run one after the other.
Relocating(r) == r.pc = "done" /\ r.exit \in {"ok", "error"}
C22_NoInterference ==
  (faults = 0 /\ files = {}) =>
    \A i, j \in Invs :
      (inv[i].doc # inv[j].doc /\ Relocating(inv[i]) /\ Relocating(inv[j]))
        => (inv[i].renamed /\ inv[j].renamed)

\* C23: an invocation that passed the guard for a document lying in the
\* backlog or the icebox is aimed at the resolved false container when the
\* property it saw was boolean false, and has renamed the document into that
\* container once it has ended without a failed storage call; when the
\* property it saw was not a boolean it has done nothing.
Shelved(r) == r.exit # "gate" /\ Parent(r.originalPath) \in Shelves
C23_ShelvedIsProcessed ==
  \A i \in Invs :
    LET r == inv[i]
    IN Shelved(r) =>
         /\ SeenValue(r) = False =>
               /\ r.exit \in {"ok", "error"}
               /\ r.target = ResolvedFalse
               /\ r.newPath = Append(ResolvedFalse, Name(r.originalPath))
               /\ (r.pc = "done" /\ ~r.error) => r.renamed
         /\ SeenValue(r).kind # "bool" => (r.pc = "done" /\ NoEffect(r))
\* A document createTask made in the backlog: the notification inside the
\* grace window was dropped, the first one after it moved the document to
\* the false container, and no move command was ever run.
C23_Witness ==
  /\ \A c \in Cmds : cmds[c].kind = "createTask"
  /\ \E i, j \in Invs :
       /\ i < j
       /\ inv[i].doc = inv[j].doc /\ inv[i].doc > 1
       /\ inv[i].exit = "gate" /\ inv[i].during = {}
       /\ Shelved(inv[j]) /\ SeenValue(inv[j]) = False
       /\ inv[j].renamed
       /\ path[inv[j].doc] = Append(ResolvedFalse, Name(inv[j].originalPath))

====
